---- MODULE Spec2Model ----
(***************************************************************************)
(* AccountBalance (src/hiero_sdk_python/account/account_balance.py):       *)
(* construction, decoding from a CryptoGetAccountBalanceResponse, and the  *)
(* two renderings __str__ and __repr__.                                    *)
(*                                                                         *)
(* Python dicts are objects with identity: the model keeps them in a heap  *)
(* (address -> contents) so that aliasing between a caller's dict and an   *)
(* instance's token_balances is visible.  A dict's contents are a sequence *)
(* of <<key, value>> pairs with distinct keys, in insertion order.         *)
(* A text is a sequence of fragments: whole lines and the "\n" separators  *)
(* for __str__, the pieces of the f-string for __repr__.                   *)
(***************************************************************************)
EXTENDS Integers, Sequences, FiniteSets, TLC

VARIABLES
    proto,       \* the in-memory CryptoGetAccountBalanceResponse handed to _from_proto
    heap,        \* address -> contents of every live dict
    balances,    \* the AccountBalance instances built so far, in creation order
    origin,      \* history, one per instance: how it was built and what it held then
    callerMaps,  \* addresses of the dicts the calling code created and still holds
    mutations,   \* number of dict writes done so far by code outside the class
    last         \* the last call: [op, arg, out]

vars == <<proto, heap, balances, origin, callerMaps, mutations, last>>

(***************************************************************************)
(* Bounds of the model.                                                    *)
(***************************************************************************)
MaxEntries == 3
MaxBalances == 2
MaxCallerMaps == 1
MaxMutations == 1

TokenNums == {10, 20, 30}
UnitCounts == {0, 5}
TinybarAmounts == {0, 100000000}

(***************************************************************************)
(* Leaf types: Hbar and TokenId live outside account_balance.py.           *)
(***************************************************************************)
TINYBARS_PER_HBAR == 100000000

\* proto.balance: an integer count of tinybars, or a value from_tinybars rejects
ProtoBalances ==
    {[valid |-> TRUE, tinybars |-> n] : n \in TinybarAmounts}
        \cup {[valid |-> FALSE, tinybars |-> 0]}

\* token_balance.tokenId: a shard/realm/num sub-message, or one that does not parse
ProtoTokenIds ==
    {[valid |-> TRUE, shardNum |-> 0, realmNum |-> 0, tokenNum |-> n] : n \in TokenNums}
        \cup {[valid |-> FALSE, shardNum |-> 0, realmNum |-> 0, tokenNum |-> 0]}

ProtoTokenBalances ==
    {[tokenId |-> t, balance |-> c] : t \in ProtoTokenIds, c \in UnitCounts}

SeqsUpTo(S, n) == UNION {[1..k -> S] : k \in 0..n}

Protos ==
    {[balance |-> b, tokenBalances |-> e] :
        b \in ProtoBalances, e \in SeqsUpTo(ProtoTokenBalances, MaxEntries)}

\* Hbar.from_tinybars(tinybars=...)
Hbar_from_tinybars(b) ==
    IF b.valid
    THEN [ok |-> TRUE, value |-> [tinybars |-> b.tinybars], error |-> "none"]
    ELSE [ok |-> FALSE, value |-> [tinybars |-> 0], error |-> "Hbar.from_tinybars"]

\* TokenId._from_proto(token_balance.tokenId)
TokenId_from_proto(t) ==
    IF t.valid
    THEN [ok |-> TRUE,
          value |-> [shard |-> t.shardNum, realm |-> t.realmNum, num |-> t.tokenNum],
          error |-> "none"]
    ELSE [ok |-> FALSE,
          value |-> [shard |-> 0, realm |-> 0, num |-> 0],
          error |-> "TokenId._from_proto"]

\* f"{self.hbars}": the amount in whole hbars
Hbar_str(h) == ToString(h.tinybars \div TINYBARS_PER_HBAR)

\* f"{self.hbars!r}"
Hbar_repr(h) == "Hbar(" \o Hbar_str(h) \o ")"

\* f"{token_id}"
TokenId_str(t) == ToString(t.shard) \o "." \o ToString(t.realm) \o "." \o ToString(t.num)

\* f"{token_id!r}"
TokenId_repr(t) ==
    "TokenId(shard=" \o ToString(t.shard) \o ", realm=" \o ToString(t.realm)
        \o ", num=" \o ToString(t.num) \o ")"

(***************************************************************************)
(* Python dict: insertion-ordered, keys distinct.                          *)
(***************************************************************************)
DictKeys(d) == {d[i][1] : i \in 1..Len(d)}

DictIndex(d, k) == CHOOSE i \in 1..Len(d) : d[i][1] = k

DictGet(d, k) == d[DictIndex(d, k)][2]

\* d.setdefault(k, v) in place of d[k] = v: a present key keeps its first value
DictSetItem_KeepFirst(d, k, v) ==
    IF k \in {d[i][1] : i \in 1..Len(d)} THEN d ELSE Append(d, <<k, v>>)

\* a mapping that moves an overwritten key to the end
DictSetItem_MoveToEnd(d, k, v) ==
    Append(SelectSeq(d, LAMBDA e : e[1] # k), <<k, v>>)

\* d[k] = v: a present key keeps its position and takes the new value,
\* an absent key is appended
DictSetItem(d, k, v) ==
    IF k \in DictKeys(d)
    THEN [d EXCEPT ![DictIndex(d, k)] = <<k, v>>]
    ELSE Append(d, <<k, v>>)

\* del d[k]
DictDelItem(d, k) == SelectSeq(d, LAMBDA e : e[1] # k)

\* bool(d)
Truthy(d) == Len(d) > 0

(***************************************************************************)
(* The heap of dicts.                                                      *)
(***************************************************************************)
\* the {} literal: a new dict at an address no live dict has
NewDict(hp) ==
    LET a == CHOOSE n \in 1..(Cardinality(DOMAIN hp) + 1) :
                /\ n \notin DOMAIN hp
                /\ \A m \in 1..(n - 1) : m \in DOMAIN hp
    IN [heap |-> [x \in DOMAIN hp \cup {a} |-> IF x = a THEN <<>> ELSE hp[x]],
        ref |-> a]

\* a dict nothing refers to any more is released
Release(hp, a, keep) ==
    IF a \in keep THEN hp ELSE [x \in DOMAIN hp \ {a} |-> hp[x]]

\* everything that still refers to a dict
Referenced == callerMaps \cup {balances[i].token_balances : i \in 1..Len(balances)}

(***************************************************************************)
(* AccountBalance.                                                         *)
(***************************************************************************)
\* token_balances if token_balances is not None else {}
OrEmptyDict_NotNone(hp, arg) ==
    IF arg.given THEN [heap |-> hp, ref |-> arg.ref] ELSE NewDict(hp)

\* token_balances or DEFAULT, with one DEFAULT = {} made once for the class
OrEmptyDict_SharedDefault(hp, arg) ==
    LET defaults == {i \in 1..Len(balances) : origin[i].via = "init" /\ origin[i].argEmpty}
    IN IF arg.given /\ Len(hp[arg.ref]) > 0
       THEN [heap |-> hp, ref |-> arg.ref]
       ELSE IF defaults # {}
            THEN [heap |-> hp,
                  ref |-> balances[CHOOSE i \in defaults : TRUE].token_balances]
            ELSE NewDict(hp)

\* token_balances or {}: the argument itself when it is a non-empty dict,
\* otherwise (None or an empty dict) a new empty dict
OrEmptyDict(hp, arg) ==
    IF arg.given /\ Truthy(hp[arg.ref])
    THEN [heap |-> hp, ref |-> arg.ref]
    ELSE NewDict(hp)

\* AccountBalance.__init__(hbars, token_balances=None)
AccountBalance_init(hp, hbars, arg) ==
    LET tb == OrEmptyDict(hp, arg)
    IN [heap |-> tb.heap, self |-> [hbars |-> hbars, token_balances |-> tb.ref]]

NoBalance == [hbars |-> [tinybars |-> 0], token_balances |-> 0]

\* the loop with the parse wrapped in try/except: continue
RECURSIVE DecodeEntries_SkipBad(_, _)
DecodeEntries_SkipBad(d, entries) ==
    IF entries = <<>>
    THEN [ok |-> TRUE, dict |-> d, error |-> "none"]
    ELSE LET token_id == TokenId_from_proto(Head(entries).tokenId)
         IN IF ~token_id.ok
            THEN DecodeEntries_SkipBad(d, Tail(entries))
            ELSE DecodeEntries_SkipBad(
                     DictSetItem(d, token_id.value, Head(entries).balance),
                     Tail(entries))

\* the loop of _from_proto over the entries, in message order; a TokenId that
\* does not parse raises out of the loop
RECURSIVE DecodeEntries(_, _)
DecodeEntries(d, entries) ==
    IF entries = <<>>
    THEN [ok |-> TRUE, dict |-> d, error |-> "none"]
    ELSE LET token_balance == Head(entries)
             token_id == TokenId_from_proto(token_balance.tokenId)
         IN IF ~token_id.ok
            THEN [ok |-> FALSE, dict |-> d, error |-> token_id.error]
            ELSE DecodeEntries(
                     DictSetItem(d, token_id.value, token_balance.balance),
                     Tail(entries))

\* one dict kept on the class and filled again by every _from_proto call
LocalDict_Shared(hp) ==
    LET decoded == {i \in 1..Len(balances) : origin[i].via = "from_proto"}
    IN IF decoded # {}
       THEN [heap |-> hp, ref |-> balances[CHOOSE i \in decoded : TRUE].token_balances]
       ELSE NewDict(hp)

\* token_balances: Dict[TokenId, int] = {} in _from_proto
LocalDict(hp) == NewDict(hp)

\* AccountBalance._from_proto(proto)
AccountBalance_from_proto(hp, p) ==
    LET hbars == Hbar_from_tinybars(p.balance)
    IN IF ~hbars.ok
       THEN [ok |-> FALSE, error |-> hbars.error, heap |-> hp, self |-> NoBalance]
       ELSE LET local == LocalDict(hp)
                filled == IF Truthy(p.tokenBalances)
                          THEN DecodeEntries(local.heap[local.ref], p.tokenBalances)
                          ELSE [ok |-> TRUE, dict |-> local.heap[local.ref],
                                error |-> "none"]
            IN IF ~filled.ok
               THEN [ok |-> FALSE, error |-> filled.error,
                     heap |-> Release(local.heap, local.ref, Referenced),
                     self |-> NoBalance]
               ELSE LET made == AccountBalance_init(
                                    [local.heap EXCEPT ![local.ref] = filled.dict],
                                    hbars.value,
                                    [given |-> TRUE, ref |-> local.ref])
                    IN [ok |-> TRUE, error |-> "none",
                        heap |-> Release(made.heap, local.ref,
                                         Referenced \cup {made.self.token_balances}),
                        self |-> made.self]

\* sep.join(parts)
RECURSIVE StrJoin(_, _)
StrJoin(sep, parts) ==
    IF Len(parts) = 0 THEN <<>>
    ELSE IF Len(parts) = 1 THEN <<parts[1]>>
    ELSE <<parts[1], sep>> \o StrJoin(sep, Tail(parts))

\* the loop of __str__ with "if balance:" around the append
TokenLines_SkipZero(d) ==
    LET nz == SelectSeq(d, LAMBDA e : e[2] # 0)
    IN [i \in 1..Len(nz) |->
           " - Token ID " \o TokenId_str(nz[i][1]) \o ": " \o ToString(nz[i][2])
               \o " units"]

\* the lines __str__ appends for the items of the dict, in iteration order
TokenLines(d) ==
    [i \in 1..Len(d) |->
        " - Token ID " \o TokenId_str(d[i][1]) \o ": " \o ToString(d[i][2]) \o " units"]

\* __str__ without "if self.token_balances:"
AccountBalance_str_AlwaysHeader(hp, self) ==
    LET d == hp[self.token_balances]
        tl == [i \in 1..Len(d) |->
                  " - Token ID " \o TokenId_str(d[i][1]) \o ": " \o ToString(d[i][2])
                      \o " units"]
    IN StrJoin("\n", <<"HBAR Balance: " \o Hbar_str(self.hbars) \o " hbars",
                       "Token Balances:">> \o tl)

\* AccountBalance.__str__
AccountBalance_str(hp, self) ==
    LET d == hp[self.token_balances]
        lines == <<"HBAR Balance: " \o Hbar_str(self.hbars) \o " hbars">>
                    \o (IF Truthy(d) THEN <<"Token Balances:">> \o TokenLines(d) ELSE <<>>)
    IN StrJoin("\n", lines)

\* the items __repr__ joins, in iteration order
ReprItems(d) ==
    [i \in 1..Len(d) |-> TokenId_repr(d[i][1]) \o ": " \o ToString(d[i][2])]

\* token_balances_repr with else "" in place of else "{}"
TokenBalancesRepr_OmitEmpty(d) ==
    IF Len(d) > 0
    THEN <<"{">> \o StrJoin(", ", ReprItems(d)) \o <<"}">>
    ELSE <<>>

\* token_balances_repr of __repr__
TokenBalancesRepr(d) ==
    IF Truthy(d)
    THEN <<"{">> \o StrJoin(", ", ReprItems(d)) \o <<"}">>
    ELSE <<"{}">>

\* AccountBalance.__repr__
AccountBalance_repr(hp, self) ==
    <<"AccountBalance(hbars=", Hbar_repr(self.hbars), ", token_balances=">>
        \o TokenBalancesRepr(hp[self.token_balances]) \o <<")">>

(***************************************************************************)
(* The state machine: calls made by the code that uses the class.          *)
(***************************************************************************)
\* the amount calling code passes to the constructor: one hbar
Hbars == {[tinybars |-> TINYBARS_PER_HBAR]}

\* the dicts calling code builds before it passes them to the constructor
CallerDicts == {<<>>, <<<<[shard |-> 0, realm |-> 0, num |-> 10], 5>>>>}

\* the items calling code writes afterwards: a key the dicts above and the
\* sample messages hold, with another count, and a key none of them holds
CallerItems ==
    {<<[shard |-> 0, realm |-> 0, num |-> 10], 0>>,
     <<[shard |-> 0, realm |-> 0, num |-> 30], 5>>}

\* what self.token_balances holds
Held(i) == heap[balances[i].token_balances]

\* the messages the full machine decodes: no entries, two entries, an entry
\* whose token id does not parse
SampleEntries ==
    LET e(t, n, c) == [tokenId |-> [valid |-> t, shardNum |-> 0, realmNum |-> 0,
                                    tokenNum |-> n],
                       balance |-> c]
    IN {<<>>, <<e(TRUE, 10, 5), e(TRUE, 20, 0)>>, <<e(TRUE, 10, 5), e(FALSE, 0, 0)>>}

SampleProtos ==
    {[balance |-> [valid |-> TRUE, tinybars |-> 0], tokenBalances |-> e] :
        e \in SampleEntries}

Start ==
    /\ heap = <<>>
    /\ balances = <<>>
    /\ origin = <<>>
    /\ callerMaps = {}
    /\ mutations = 0
    /\ last = [op |-> "start", arg |-> 0, out |-> <<>>]

Init == proto \in SampleProtos /\ Start

InitDecode == proto \in Protos /\ Start

\* calling code writes a dict literal and keeps it
CallerNewDict(d) ==
    /\ Cardinality(callerMaps) < MaxCallerMaps
    /\ LET new == NewDict(heap)
       IN /\ heap' = [new.heap EXCEPT ![new.ref] = d]
          /\ callerMaps' = callerMaps \cup {new.ref}
          /\ last' = [op |-> "caller_new", arg |-> new.ref, out |-> <<>>]
    /\ UNCHANGED <<proto, balances, origin, mutations>>

\* AccountBalance(hbars) or AccountBalance(hbars, token_balances)
Construct(hbars, arg) ==
    /\ Len(balances) < MaxBalances
    /\ LET made == AccountBalance_init(heap, hbars, arg)
       IN /\ heap' = made.heap
          /\ balances' = Append(balances, made.self)
          /\ origin' = Append(origin,
                 [via |-> "init",
                  given |-> arg.given,
                  argEmpty |-> ~arg.given \/ ~Truthy(heap[arg.ref]),
                  hbars |-> made.self.hbars,
                  held |-> made.heap[made.self.token_balances]])
          /\ last' = [op |-> "init", arg |-> Len(balances) + 1, out |-> <<>>]
    /\ UNCHANGED <<proto, callerMaps, mutations>>

\* AccountBalance._from_proto(proto)
DecodeFrom ==
    /\ Len(balances) < MaxBalances
    /\ LET r == AccountBalance_from_proto(heap, proto)
       IN /\ heap' = r.heap
          /\ IF r.ok
             THEN /\ balances' = Append(balances, r.self)
                  /\ origin' = Append(origin,
                         [via |-> "from_proto",
                          given |-> FALSE,
                          argEmpty |-> FALSE,
                          hbars |-> r.self.hbars,
                          held |-> r.heap[r.self.token_balances]])
                  /\ last' = [op |-> "from_proto", arg |-> Len(balances) + 1,
                              out |-> <<"ok">>]
             ELSE /\ UNCHANGED <<balances, origin>>
                  /\ last' = [op |-> "from_proto", arg |-> 0,
                              out |-> <<"raised", r.error>>]
    /\ UNCHANGED <<proto, callerMaps, mutations>>

\* str(balance) with __str__ taking the items by popitem()
FormatHuman_Draining(i) ==
    /\ last' = [op |-> "str", arg |-> i, out |-> AccountBalance_str(heap, balances[i])]
    /\ heap' = [heap EXCEPT ![balances[i].token_balances] = <<>>]
    /\ UNCHANGED <<proto, balances, origin, callerMaps, mutations>>

\* str(balance)
FormatHuman(i) ==
    /\ last' = [op |-> "str", arg |-> i, out |-> AccountBalance_str(heap, balances[i])]
    /\ UNCHANGED <<proto, heap, balances, origin, callerMaps, mutations>>

\* repr(balance)
FormatDebug(i) ==
    /\ last' = [op |-> "repr", arg |-> i, out |-> AccountBalance_repr(heap, balances[i])]
    /\ UNCHANGED <<proto, heap, balances, origin, callerMaps, mutations>>

\* calling code writes d[k] = v on a dict it created
CallerSetItem(a, k, v) ==
    /\ mutations < MaxMutations
    /\ heap' = [heap EXCEPT ![a] = DictSetItem(heap[a], k, v)]
    /\ mutations' = mutations + 1
    /\ last' = [op |-> "caller_set", arg |-> a, out |-> <<>>]
    /\ UNCHANGED <<proto, balances, origin, callerMaps>>

\* calling code writes del d[k] on a dict it created
CallerDelItem(a, k) ==
    /\ mutations < MaxMutations
    /\ k \in DictKeys(heap[a])
    /\ heap' = [heap EXCEPT ![a] = DictDelItem(heap[a], k)]
    /\ mutations' = mutations + 1
    /\ last' = [op |-> "caller_del", arg |-> a, out |-> <<>>]
    /\ UNCHANGED <<proto, balances, origin, callerMaps>>

\* calling code writes balance.token_balances[k] = v
InstanceSetItem(i, k, v) ==
    /\ mutations < MaxMutations
    /\ heap' = [heap EXCEPT ![balances[i].token_balances] = DictSetItem(Held(i), k, v)]
    /\ mutations' = mutations + 1
    /\ last' = [op |-> "instance_set", arg |-> i, out |-> <<>>]
    /\ UNCHANGED <<proto, balances, origin, callerMaps>>

Next ==
    \/ \E d \in CallerDicts : CallerNewDict(d)
    \/ \E hbars \in Hbars : Construct(hbars, [given |-> FALSE, ref |-> 0])
    \/ \E hbars \in Hbars, a \in callerMaps : Construct(hbars, [given |-> TRUE, ref |-> a])
    \/ DecodeFrom
    \/ \E i \in 1..Len(balances) : FormatHuman(i)
    \/ \E i \in 1..Len(balances) : FormatDebug(i)
    \/ \E a \in callerMaps, e \in CallerItems : CallerSetItem(a, e[1], e[2])
    \/ \E a \in callerMaps, e \in CallerItems : CallerDelItem(a, e[1])
    \/ \E i \in 1..Len(balances), e \in CallerItems : InstanceSetItem(i, e[1], e[2])

Spec == Init /\ [][Next]_vars

\* decoding and rendering alone, over every message of the bounded shape
NextDecode ==
    \/ DecodeFrom
    \/ \E i \in 1..Len(balances) : FormatHuman(i)
    \/ \E i \in 1..Len(balances) : FormatDebug(i)

SpecDecode == InitDecode /\ [][NextDecode]_vars

(***************************************************************************)
(* Properties.                                                             *)
(***************************************************************************)
Entries == proto.tokenBalances

\* the token identities of the entries, in message order
EntryIds == [j \in 1..Len(Entries) |-> TokenId_from_proto(Entries[j].tokenId).value]

\* the last entry that carries identity k
LastIndexOf(k) ==
    CHOOSE j \in 1..Len(Entries) :
        EntryIds[j] = k /\ \A m \in (j + 1)..Len(Entries) : EntryIds[m] # k

\* the entries that are the first to carry their identity
FirstIndexes == {j \in 1..Len(Entries) : \A m \in 1..(j - 1) : EntryIds[m] # EntryIds[j]}

NthFirst(n) ==
    CHOOSE j \in FirstIndexes : Cardinality({m \in FirstIndexes : m < j}) = n - 1

Decoded(i) == origin[i].via = "from_proto"

HbarAccepted == Hbar_from_tinybars(proto.balance).ok

BadEntries == {j \in 1..Len(Entries) : ~TokenId_from_proto(Entries[j].tokenId).ok}

HumanTokenLine(e) ==
    " - Token ID " \o TokenId_str(e[1]) \o ": " \o ToString(e[2]) \o " units"

HumanFirstLine(self) == "HBAR Balance: " \o Hbar_str(self.hbars) \o " hbars"

DebugItem(e) == TokenId_repr(e[1]) \o ": " \o ToString(e[2])

\* C1: the mapping _from_proto builds has exactly the identities that occur in
\* the message as keys, each once, and each key holds the unit count of the
\* last entry of the message that carries it (last write wins).
C1_LastWriteWins ==
    \A i \in 1..Len(balances) :
        Decoded(i) =>
            LET d == origin[i].held
            IN /\ DictKeys(d) = {EntryIds[j] : j \in 1..Len(Entries)}
               /\ \A k \in DictKeys(d) :
                     /\ Cardinality({n \in 1..Len(d) : d[n][1] = k}) = 1
                     /\ DictGet(d, k) = Entries[LastIndexOf(k)].balance

\* a message with the same identity twice, with different counts, was decoded
C1_Witness ==
    /\ last.op = "from_proto"
    /\ last.out = <<"ok">>
    /\ \E a, b \in 1..Len(Entries) :
          a < b /\ EntryIds[a] = EntryIds[b] /\ Entries[a].balance # Entries[b].balance

\* what the original C3 and its amended form both require of a message with
\* no entries: decoding succeeds, the instance holds a dict that is empty, and
\* __str__ of it is the single native-balance line
C3_ZeroEntriesOutcome ==
    /\ last.op = "from_proto" =>
          /\ last.out = <<"ok">>
          /\ balances[last.arg].token_balances \in DOMAIN heap
          /\ Held(last.arg) = <<>>
    /\ \A i \in 1..Len(balances) :
          Decoded(i) =>
              /\ balances[i].token_balances \in DOMAIN heap
              /\ origin[i].held = <<>>
    /\ (last.op = "str" /\ Decoded(last.arg)) =>
          last.out = <<HumanFirstLine(balances[last.arg])>>

\* C3 as stated: for every message with zero token entries _from_proto succeeds
\* with an empty mapping and __str__ gives one line.
C3_AsStated == Len(Entries) = 0 => C3_ZeroEntriesOutcome

\* C3 amended: for every message with zero token entries whose balance field
\* Hbar.from_tinybars accepts, _from_proto succeeds with an empty mapping (a
\* dict, never None) and __str__ of the result is exactly the native-balance
\* line, without the "Token Balances:" header.
C3_ZeroEntries == (Len(Entries) = 0 /\ HbarAccepted) => C3_ZeroEntriesOutcome

\* __str__ was called on an instance decoded from a message with no entries
C3_Witness ==
    /\ Len(Entries) = 0
    /\ last.op = "str"
    /\ Decoded(last.arg)
    /\ Len(last.out) = 1

\* C5: for a non-empty mapping of n entries __str__ gives n + 2 lines joined
\* by "\n": the native-balance line, "Token Balances:", then one line
\* " - Token ID {id}: {count} units" per entry in iteration order, every key
\* once, entries with count 0 included.
C5_HumanLines ==
    last.op = "str" =>
        LET self == balances[last.arg]
            d == Held(last.arg)
            n == Len(d)
            out == last.out
        IN n > 0 =>
              /\ Len(out) = 2 * (n + 2) - 1
              /\ \A m \in 1..(n + 1) : out[2 * m] = "\n"
              /\ out[1] = HumanFirstLine(self)
              /\ out[3] = "Token Balances:"
              /\ \A j \in 1..n : out[2 * j + 3] = HumanTokenLine(d[j])
              /\ \A k \in DictKeys(d) :
                    Cardinality({j \in 1..n : out[2 * j + 3] = HumanTokenLine(<<k, DictGet(d, k)>>)}) = 1

\* amount 0 with entries [(0.0.10, 5), (0.0.20, 0)] rendered as four lines
C5_Witness ==
    /\ last.op = "str"
    /\ last.out = <<"HBAR Balance: 0 hbars", "\n", "Token Balances:", "\n",
                    " - Token ID 0.0.10: 5 units", "\n",
                    " - Token ID 0.0.20: 0 units">>

\* the error the first field that does not parse raises
ExpectedError ==
    IF ~HbarAccepted
    THEN Hbar_from_tinybars(proto.balance).error
    ELSE TokenId_from_proto(
             Entries[CHOOSE j \in BadEntries : \A m \in BadEntries : j <= m].tokenId).error

\* C7: _from_proto raises the leaf's error when Hbar.from_tinybars rejects the
\* balance or any entry's token id does not parse, at whatever position, and
\* then produces no AccountBalance and leaves no partly filled dict behind;
\* when every field parses it returns an instance.
C7_DecodePropagates ==
    LET bad == ~HbarAccepted \/ BadEntries # {}
    IN /\ last.op = "from_proto" =>
             IF bad
             THEN last.out = <<"raised", ExpectedError>>
             ELSE last.out = <<"ok">> /\ Decoded(last.arg)
       /\ bad => \A i \in 1..Len(balances) : ~Decoded(i)
       /\ bad => DOMAIN heap \subseteq Referenced

\* decoding failed on an entry that follows one that had been decoded
C7_Witness ==
    /\ last.op = "from_proto"
    /\ last.out = <<"raised", "TokenId._from_proto">>
    /\ Len(Entries) >= 2
    /\ 1 \notin BadEntries
    /\ balances = <<>>

\* C9: the mapping _from_proto builds iterates the identities in the order of
\* their first occurrence in the message, each with the count of its last
\* occurrence, and the token lines of __str__ and the items of __repr__ of
\* the decoded instance follow that order.
C9_FirstOccurrenceOrder ==
    LET expected == [n \in 1..Cardinality(FirstIndexes) |->
                        <<EntryIds[NthFirst(n)],
                          Entries[LastIndexOf(EntryIds[NthFirst(n)])].balance>>]
    IN /\ \A i \in 1..Len(balances) : Decoded(i) => origin[i].held = expected
       /\ (last.op = "str" /\ Decoded(last.arg) /\ Held(last.arg) = origin[last.arg].held) =>
             \A n \in 1..Len(expected) : last.out[2 * n + 3] = HumanTokenLine(expected[n])
       /\ (last.op = "repr" /\ Decoded(last.arg) /\ Held(last.arg) = origin[last.arg].held) =>
             \A n \in 1..Len(expected) : last.out[2 * n + 3] = DebugItem(expected[n])

\* __str__ of an instance decoded from a message whose first identity comes
\* again after another identity, with another count
C9_Witness ==
    /\ last.op = "str"
    /\ Decoded(last.arg)
    /\ Len(Entries) = 3
    /\ BadEntries = {}
    /\ EntryIds[1] = EntryIds[3]
    /\ EntryIds[1] # EntryIds[2]
    /\ Entries[1].balance # Entries[3].balance

\* both renderings of instance i
Rendered(i) ==
    <<AccountBalance_str(heap, balances[i]), AccountBalance_repr(heap, balances[i])>>

\* the step is a write by calling code to a dict it created
CallerWrote == mutations' # mutations /\ last'.op \in {"caller_set", "caller_del"}

\* the step is a write through an instance's token_balances
InstanceWritten == mutations' # mutations /\ last'.op = "instance_set"

\* instance i was built by __init__ from a dict the caller passed / from
\* no dict, None or an empty dict
BuiltFromCallerDict(i) == origin[i].via = "init" /\ origin[i].given

BuiltFromEmpty(i) == origin[i].via = "init" /\ origin[i].argEmpty

\* C2 as stated: whatever mapping the caller passed to __init__, empty or
\* not, a later change the caller makes to it leaves the instance's
\* token_balances and both renderings unchanged.
C2_AsStated ==
    [][CallerWrote =>
          \A i \in 1..Len(balances) :
              BuiltFromCallerDict(i) =>
                  Held(i)' = Held(i) /\ Rendered(i)' = Rendered(i)]_vars

\* C2 amended: __init__ takes a new empty dict only when the mapping passed
\* is empty (or None, or omitted), and then a later change the caller makes to
\* its mapping leaves the instance's token_balances and both renderings
\* unchanged; when the mapping passed is non-empty the instance holds that
\* very dict, with no snapshot taken.
C2_SnapshotOnlyWhenEmpty ==
    /\ [](\A i \in 1..Len(balances) :
              (BuiltFromCallerDict(i) /\ ~origin[i].argEmpty) =>
                  balances[i].token_balances \in callerMaps)
    /\ [][CallerWrote =>
             \A i \in 1..Len(balances) :
                 BuiltFromEmpty(i) =>
                     Held(i)' = Held(i) /\ Rendered(i)' = Rendered(i)]_vars

\* the caller passed an empty dict to __init__ and then wrote an item to it
C2_Witness ==
    /\ last.op = "caller_set"
    /\ heap[last.arg] # <<>>
    /\ \E i \in 1..Len(balances) :
          BuiltFromCallerDict(i) /\ origin[i].argEmpty /\ Held(i) = <<>>

\* C4: an instance built with the mapping omitted, None or empty has an empty
\* dict of its own: no other instance and no caller holds it, a write through
\* one instance's token_balances changes no other instance's, and a later
\* __init__ without a mapping starts empty again.
C4_DefaultNeverShared ==
    /\ [](\A i \in 1..Len(balances) :
              BuiltFromEmpty(i) =>
                  /\ origin[i].held = <<>>
                  /\ balances[i].token_balances \notin callerMaps
                  /\ \A j \in 1..Len(balances) :
                        j # i => balances[j].token_balances # balances[i].token_balances)
    /\ [][(InstanceWritten /\ BuiltFromEmpty(last'.arg)) =>
             \A j \in 1..Len(balances) : j # last'.arg => Held(j)' = Held(j)]_vars

\* two instances built without a mapping, one of them written through
C4_Witness ==
    /\ last.op = "instance_set"
    /\ origin[last.arg].via = "init"
    /\ ~origin[last.arg].given
    /\ Held(last.arg) # <<>>
    /\ \E j \in 1..Len(balances) :
          j # last.arg /\ origin[j].via = "init" /\ ~origin[j].given /\ Held(j) = <<>>

\* C6: __repr__ always renders the mapping: "{}" when it is empty, otherwise
\* "{" and "}" around one "{token_id!r}: {balance}" item per key, each key
\* once, in iteration order, joined by ", ".
C6_DebugRendering ==
    last.op = "repr" =>
        LET self == balances[last.arg]
            d == Held(last.arg)
            n == Len(d)
            out == last.out
        IN /\ Len(out) >= 5
           /\ out[1] = "AccountBalance(hbars="
           /\ out[2] = Hbar_repr(self.hbars)
           /\ out[3] = ", token_balances="
           /\ out[Len(out)] = ")"
           /\ IF n = 0
              THEN Len(out) = 5 /\ out[4] = "{}"
              ELSE /\ Len(out) = 2 * n + 5
                   /\ out[4] = "{"
                   /\ out[2 * n + 4] = "}"
                   /\ \A j \in 1..n : out[2 * j + 3] = DebugItem(d[j])
                   /\ \A j \in 1..(n - 1) : out[2 * j + 4] = ", "
                   /\ \A k \in DictKeys(d) :
                         Cardinality({j \in 1..n :
                             out[2 * j + 3] = DebugItem(<<k, DictGet(d, k)>>)}) = 1

\* __repr__ of an instance that holds two entries
C6_Witness ==
    /\ last.op = "repr"
    /\ Len(Held(last.arg)) = 2
    /\ Len(last.out) = 9

\* the key-value pairs of a dict, as a set
Items(d) == {d[n] : n \in 1..Len(d)}

\* C8: two instances decoded from the same message, whatever was called in
\* between, came out with equal amounts and with mappings equal as sets of
\* key-value pairs, and they hold different dicts: a write through one
\* does not change the other.
C8_DecodeIndependent ==
    /\ [](\A i, j \in 1..Len(balances) :
              (i # j /\ Decoded(i) /\ Decoded(j)) =>
                  /\ origin[i].hbars = origin[j].hbars
                  /\ balances[i].hbars = balances[j].hbars
                  /\ Items(origin[i].held) = Items(origin[j].held)
                  /\ balances[i].token_balances # balances[j].token_balances)
    /\ [][(InstanceWritten /\ Decoded(last'.arg)) =>
             \A j \in 1..Len(balances) :
                 (j # last'.arg /\ Decoded(j)) => Held(j)' = Held(j)]_vars

\* two instances decoded from the same message, one of them written through
C8_Witness ==
    /\ last.op = "instance_set"
    /\ Decoded(last.arg)
    /\ \E j \in 1..Len(balances) :
          j # last.arg /\ Decoded(j) /\ Held(j) # Held(last.arg)

\* C10: a __str__, __repr__ or _from_proto call leaves the message, every
\* instance that exists, the dict each one holds and the caller's dicts as
\* they were, and __str__ or __repr__ called again on the same instance
\* returns the same text.
C10_Pure ==
    [][last'.op \in {"str", "repr", "from_proto"} =>
          /\ proto' = proto
          /\ \A i \in 1..Len(balances) :
                /\ balances'[i] = balances[i]
                /\ Held(i)' = Held(i)
          /\ \A a \in callerMaps : heap'[a] = heap[a]
          /\ (last'.op \in {"str", "repr"} /\ last.op = last'.op /\ last.arg = last'.arg) =>
                last'.out = last.out]_vars

\* __str__ of a constructed instance that holds entries, called after a
\* _from_proto call made the second instance
C10_Witness ==
    /\ last.op = "str"
    /\ last.arg = 1
    /\ Len(balances) = 2
    /\ ~Decoded(1)
    /\ Decoded(2)
    /\ Held(1) # <<>>

====
